---- MODULE Spec2Model ----
(***************************************************************************)
(* Symbol-cache fetch orchestration (src/actors/symcaches.rs):             *)
(* SymCacheActor::fetch, the CacheItemRequest implementation of            *)
(* FetchSymCacheInternal (get_cache_key, compute, should_load, load),      *)
(* SymCacheFile::parse and write_symcache.                                 *)
(*                                                                         *)
(* The memoizing engine (Cacher), the worker pool (ThreadPool), the        *)
(* timing wrapper (future_metrics!) and the object resolution              *)
(* (ObjectsActor) live outside symcaches.rs; they are modelled from their  *)
(* documented contract and marked so in MODEL_MAP.json.                    *)
(***************************************************************************)
EXTENDS Integers, Sequences, FiniteSets, TLC

\* ------------------------------------------------------------- bounds
NumCalls == 2          \* caller slots: fetch calls pending at the same time
MaxAttempts == 1       \* attempt slots: computations and their jobs alive at the same time

Calls == 1..NumCalls
AttemptIds == 1..MaxAttempts

\* ------------------------------------------------------ data: requests
\* FetchSymCache: object type, identifier, candidate sources, scope.
FetchSymCache(object_type, identifier, sources, scope) ==
    [object_type |-> object_type, identifier |-> identifier,
     sources |-> sources, scope |-> scope]

\* The fetch requests callers issue.  "X2" is a second identifier of the
\* object "X": the resolution canonicalises it.
Requests ==
    { FetchSymCache("macho", "X", <<"A", "B">>, "S"),
      FetchSymCache("macho", "X2", <<"A", "B">>, "S") }

NoRequest == FetchSymCache("none", "none", <<>>, "none")

Identifiers == {r.identifier : r \in Requests}
Scopes == {r.scope : r \in Requests}

\* CacheKey: a cache key string and a scope.
CacheKey(cache_key, scope) == <<cache_key, scope>>
CacheKeys == {CacheKey(i, s) : i \in Identifiers, s \in Scopes}

\* ------------------------------------------- data: resolved object (meta)
CanonicalId(identifier) == IF identifier = "X2" THEN "X" ELSE identifier

ObjectFeaturesDefault == {}
ObjectFeaturesOf(id) == IF id = "X" THEN {"debug", "symtab"} ELSE {}
ArchOf(id) == IF id = "X" THEN "x86_64" ELSE "unknown"
ArchUnknown == "unknown"

\* ObjectFileMeta handed out by ObjectsActor::find for a request.
ObjectFileMeta(request) ==
    [id |-> CanonicalId(request.identifier),
     cache_key |-> CacheKey(CanonicalId(request.identifier), request.scope),
     features |-> ObjectFeaturesOf(CanonicalId(request.identifier))]

\* ------------------------------------------------- data: symcache bytes
\* A byte payload is a sequence of chunks.  A well-formed symcache is a
\* header chunk (format version, architecture) followed by a body chunk.
SymCacheVersions == {"old", "latest"}
Header(version, arch) == [tag |-> "header", version |-> version, arch |-> arch]
Body(id) == [tag |-> "body", of |-> id]
SymCacheBytes(version, id) == <<Header(version, ArchOf(id)), Body(id)>>
GarbageBytes == <<[tag |-> "junk"]>>

\* SymCache::parse: Ok(header) for well-formed bytes, Err otherwise.
SymCacheParse(data) ==
    IF /\ Len(data) = 2
       /\ data[1].tag = "header"
       /\ data[1].version \in SymCacheVersions
       /\ data[2].tag = "body"
    THEN [ok |-> TRUE, version |-> data[1].version, arch |-> data[1].arch]
    ELSE [ok |-> FALSE, version |-> "none", arch |-> ArchUnknown]

\* SymCache::is_latest
IsLatest(symcache) == symcache.version = "latest"

\* SymCacheWriter::write_object: the chunks the transcoder emits for an object.
TranscodeChunks(id) == SymCacheBytes("latest", id)

\* ---------------------------------------------------- results of a fetch
SymCacheFile(object_type, identifier, scope, data, features, status, arch) ==
    [object_type |-> object_type, identifier |-> identifier, scope |-> scope,
     data |-> data, features |-> features, status |-> status, arch |-> arch]

NoResult == [kind |-> "none"]
OkItem(item) == [kind |-> "item", item |-> item]
Err(msg) == [kind |-> "err", msg |-> msg]
Status(s) == [kind |-> "status", status |-> s]

\* A variant of the parse accessor: the payload is parsed whatever the status.
SymCacheFileParseData(item) ==
    IF SymCacheParse(item.data).ok
    THEN [ok |-> TRUE, some |-> TRUE]
    ELSE [ok |-> FALSE, some |-> FALSE, msg |-> "Failed to parse symcache"]

\* SymCacheFile::parse: Ok(None) / Err / Ok(Some(symcache)) by status.
SymCacheFileParse(item) ==
    CASE item.status = "Negative" -> [ok |-> TRUE, some |-> FALSE]
      [] item.status = "Malformed" -> [ok |-> FALSE, some |-> FALSE, msg |-> "Failed to parse object"]
      [] item.status = "Positive" ->
            IF SymCacheParse(item.data).ok
            THEN [ok |-> TRUE, some |-> TRUE]
            ELSE [ok |-> FALSE, some |-> FALSE, msg |-> "Failed to parse symcache"]

\* --------------------------------------- FetchSymCacheInternal (the request)
FetchSymCacheInternal(request, object_meta) ==
    [request |-> request, object_meta |-> object_meta]

NoInternal == FetchSymCacheInternal(NoRequest, ObjectFileMeta(NoRequest))

\* A variant of get_cache_key: the key is built from the request's identifier.
get_cache_key_of_request(internal) ==
    CacheKey(internal.request.identifier, internal.request.scope)

\* get_cache_key: the resolved object's own key.
get_cache_key(internal) == internal.object_meta.cache_key

\* Variants of should_load: one never accepts, one accepts whatever parses.
should_load_never(data) == FALSE
should_load_any_version(data) == SymCacheParse(data).ok

\* should_load: the bytes parse and are of the latest format revision.
should_load(data) ==
    IF SymCacheParse(data).ok THEN IsLatest(SymCacheParse(data)) ELSE FALSE

\* A variant of load: the status of the entry is not carried into the item.
load_as_positive(internal, scope, status, data) ==
    SymCacheFile(internal.request.object_type, internal.request.identifier, scope,
                 data, internal.object_meta.features, "Positive",
                 IF SymCacheParse(data).ok THEN SymCacheParse(data).arch ELSE ArchUnknown)

\* A variant of load: the scope is taken from the request, not from the argument.
load_request_scope(internal, scope, status, data) ==
    SymCacheFile(internal.request.object_type, internal.request.identifier,
                 internal.request.scope, data, internal.object_meta.features, status,
                 IF SymCacheParse(data).ok THEN SymCacheParse(data).arch ELSE ArchUnknown)

\* load: build the item from the request, the resolved object and the bytes.
load(internal, scope, status, data) ==
    SymCacheFile(internal.request.object_type, internal.request.identifier, scope,
                 data, internal.object_meta.features, status,
                 IF SymCacheParse(data).ok THEN SymCacheParse(data).arch ELSE ArchUnknown)

\* A variant of the not-found item: it is marked Malformed.
NotFoundItemMalformed(request) ==
    SymCacheFile(request.object_type, request.identifier, request.scope,
                 <<>>, ObjectFeaturesDefault, "Malformed", ArchUnknown)

\* fetch, object not found: the item synthesised without the engine.
NotFoundItem(request) ==
    SymCacheFile(request.object_type, request.identifier, request.scope,
                 <<>>, ObjectFeaturesDefault, "Negative", ArchUnknown)

\* ------------------------------------------------------- write_symcache
WriteFailure == "Failed to write symcache"
ParseFailure == "Failed to parse object"

\* write_symcache, lines 270-276: the context put on a transcoder error.
WriteObjectError(kind) ==
    IF kind = "WriteFailed" THEN Err(WriteFailure) ELSE Err(ParseFailure)

\* A variant of the job's status: the result of write_symcache is ignored.
ComputeStatusPositive(written) == Status("Positive")

\* A variant of the job's status: an error of write_symcache is passed on.
ComputeStatusPropagates(written) ==
    IF written.kind = "err" THEN written ELSE Status("Positive")

\* compute, lines 136-143: the status the job returns for write_symcache's result.
ComputeStatus(written) ==
    IF written.kind = "err" THEN Status("Malformed") ELSE Status("Positive")

\* BufWriter::write: a chunk goes to the buffer; a full buffer (one chunk) is
\* written through to the file first.
BufWrite(j, chunk) ==
    IF Len(j.buf) >= 1
    THEN [j EXCEPT !.file = j.file \o j.buf, !.buf = <<chunk>>]
    ELSE [j EXCEPT !.buf = j.buf \o <<chunk>>]

\* A variant of into_inner: the writer is dropped without the flush.
IntoInnerLosesBuffer(j) == [j EXCEPT !.buf = <<>>]

\* BufWriter::into_inner: the buffered chunks are written to the file.
IntoInner(j) == [j EXCEPT !.file = j.file \o j.buf, !.buf = <<>>]

\* A variant of the ceiling: None, the attempt is not timed.
NoCeiling == [some |-> FALSE, secs |-> 0, error |-> Err("Symcache building took too long")]

\* compute, line 160: the ceiling handed to the timing wrapper, Some((20 min, error)).
ComputeCeiling ==
    [some |-> TRUE, secs |-> 1200, error |-> Err("Symcache building took too long")]

\* A variant of the failed download: it is reported as a missing object.
DownloadErrorAsNegative == Status("Negative")

\* compute, line 127: the context put on a failed object download.
DownloadError == Err("Failed to download object")

\* A variant of the cancellation outcome: it is folded into a status.
CanceledAsMalformed == Status("Malformed")

\* compute, line 152: the context put on a cancelled job.
CanceledError == Err("Computation was canceled internally")

\* ================================================================ state
VARIABLES
    calls,     \* per caller slot: idle, or waiting on an attempt
    out,       \* per caller slot: what fetch returned to it in the last step
    store,     \* the persistent store: cache key -> status and bytes
    inflight,  \* the engine's in-flight map: cache key -> attempt (0: none)
    att,       \* per attempt slot: the compute future (position, key, request, outcome)
    job,       \* per attempt slot: the worker job and its target file
    seen       \* per object key: status and bytes of the last item the engine
               \* returned, the status its attempt or lookup settled with, and
               \* whether an item came out of a computation

vars == <<calls, out, store, inflight, att, job, seen>>

NoKey == CacheKey("none", "none")
Absent == [status |-> "Absent", data |-> <<>>]
Entry(status, data) == [status |-> status, data |-> data]
NotSeen == [status |-> "Absent", data |-> <<>>, entry |-> "Absent", computed |-> FALSE]

\* A caller slot: "idle" (no fetch pending in the engine) or "waiting"
\* (its fetch resolved the object okey and is attached to the attempt via).
Call(pc, okey, via) == [pc |-> pc, okey |-> okey, via |-> via]
IdleCall == Call("idle", NoKey, 0)

\* What a fetch returned: how the resolution ended ("error", "none", "some"),
\* the resolved object's key, the item or error, and the attempt that
\* produced it (0: none, the result came without a computation).
Out(found, okey, res, via) == [found |-> found, okey |-> okey, res |-> res, via |-> via]
NoOut == Out("pending", NoKey, NoResult, 0)
Quiet == [c \in Calls |-> NoOut]

\* An attempt slot: "unused", "download", "job", "returned" (compute has
\* returned outcome), "committed", "settled" (over, its job still on a worker).
UnusedAttempt ==
    [pc |-> "unused", key |-> NoKey, okey |-> NoKey, internal |-> NoInternal,
     ceiling |-> 0, outcome |-> NoResult]

NoJob ==
    [pc |-> "none", object |-> [status |-> "none", kind |-> "none"], id |-> "none",
     buf |-> <<>>, file |-> <<>>, synced |-> FALSE, result |-> NoResult,
     fail |-> "none"]

\* A job that is over: its record is dropped, only how it ended stays.
Over(how) == [NoJob EXCEPT !.pc = how]
JobOver(j) == j.pc \in {"none", "dropped", "canceled", "discarded", "delivered"}
Running(j) == j.pc \in {"create", "write", "flush", "sync"}

\* The objects ObjectsActor::fetch may hand to compute: a status and, for a
\* Positive object, whether it parses and whether the transcoder accepts it.
ObjectFiles ==
    { [status |-> "Negative", kind |-> "none"],
      [status |-> "Malformed", kind |-> "none"],
      [status |-> "Positive", kind |-> "good"],
      [status |-> "Positive", kind |-> "unparseable"],
      [status |-> "Positive", kind |-> "badstruct"] }

\* The entries a store may hold for object X from earlier runs of the service.
EarlierEntries ==
    { Absent,
      Entry("Positive", SymCacheBytes("latest", "X")),
      Entry("Positive", SymCacheBytes("old", "X")),
      Entry("Positive", GarbageBytes) }

Init ==
    /\ calls = [c \in Calls |-> IdleCall]
    /\ out = Quiet
    /\ \E e \in EarlierEntries :
          store = [k \in CacheKeys |-> IF k = CacheKey("X", "S") THEN e ELSE Absent]
    /\ inflight = [k \in CacheKeys |-> 0]
    /\ att = [a \in AttemptIds |-> UnusedAttempt]
    /\ job = [a \in AttemptIds |-> NoJob]
    /\ seen = [k \in CacheKeys |-> NotSeen]

\* ---------------------------------------------------------------- engine
\* Cacher lookup: a persisted Negative or Malformed entry is reused as it is;
\* persisted bytes of a Positive entry are reused when should_load accepts them.
CacheHit(entry) ==
    \/ entry.status \in {"Negative", "Malformed"}
    \/ entry.status = "Positive" /\ should_load(entry.data)

\* The slots free for a new computation, and the one it gets.
FreeAttempts == {a \in AttemptIds : att[a].pc = "unused"}
NextAttempt == CHOOSE a \in FreeAttempts : \A b \in FreeAttempts : a <= b

\* Caller slots are interchangeable: a new fetch takes the first idle one.
Resolving(c) ==
    /\ calls[c].pc = "idle"
    /\ \A d \in Calls : d < c => calls[d].pc # "idle"

\* The engine returned item for the object okey, loaded from an entry of the
\* status entry, via a computation or not.
Remember(item, entry, okey, via) ==
    [seen EXCEPT ![okey] = [status |-> item.status, data |-> item.data,
                            entry |-> entry,
                            computed |-> via # 0 \/ seen[okey].computed]]

\* Cacher::compute_memoized, persisted entry accepted: load it.
MemoizedHit(c, internal, key) ==
    /\ inflight[key] = 0
    /\ CacheHit(store[key])
    /\ LET item == load(internal, key[2], store[key].status, store[key].data)
       IN  /\ out' = [Quiet EXCEPT ![c] =
                        Out("some", internal.object_meta.cache_key, OkItem(item), 0)]
           /\ seen' = Remember(item, store[key].status, internal.object_meta.cache_key, 0)
    /\ UNCHANGED <<calls, store, inflight, att, job>>

\* Cacher::compute_memoized, a computation for the key is in flight: attach.
MemoizedAttach(c, internal, key) ==
    /\ inflight[key] # 0
    /\ calls' = [calls EXCEPT ![c] =
                   Call("waiting", internal.object_meta.cache_key, inflight[key])]
    /\ out' = Quiet
    /\ UNCHANGED <<store, inflight, att, job, seen>>

\* Cacher::compute_memoized, miss: start compute (the object download begins).
MemoizedMiss(c, internal, key) ==
    /\ inflight[key] = 0
    /\ ~CacheHit(store[key])
    /\ FreeAttempts # {}
    /\ calls' = [calls EXCEPT ![c] =
                   Call("waiting", internal.object_meta.cache_key, NextAttempt)]
    /\ out' = Quiet
    /\ inflight' = [inflight EXCEPT ![key] = NextAttempt]
    /\ att' = [att EXCEPT ![NextAttempt] =
                 [UnusedAttempt EXCEPT !.pc = "download", !.key = key,
                                       !.okey = internal.object_meta.cache_key,
                                       !.internal = internal,
                                       !.ceiling = IF ComputeCeiling.some
                                                   THEN ComputeCeiling.secs ELSE 0]]
    /\ UNCHANGED <<store, job, seen>>

\* ----------------------------------------------------- SymCacheActor::fetch
\* ObjectsActor::find failed.
FetchFindError(c) ==
    /\ Resolving(c)
    /\ out' = [Quiet EXCEPT ![c] = Out("error", NoKey, DownloadError, 0)]
    /\ UNCHANGED <<calls, store, inflight, att, job, seen>>

\* ObjectsActor::find reported no object.
FetchNotFound(c) ==
    \E request \in Requests :
        /\ Resolving(c)
        /\ out' = [Quiet EXCEPT ![c] = Out("none", NoKey, OkItem(NotFoundItem(request)), 0)]
        /\ UNCHANGED <<calls, store, inflight, att, job, seen>>

\* ObjectsActor::find found the object: hand the internal request to the engine.
FetchFound(c) ==
    \E request \in Requests :
        LET internal == FetchSymCacheInternal(request, ObjectFileMeta(request))
            key == get_cache_key(internal)
        IN  /\ Resolving(c)
            /\ \/ MemoizedHit(c, internal, key)
               \/ MemoizedAttach(c, internal, key)
               \/ MemoizedMiss(c, internal, key)

\* A variant of the pending future: it counts as pending after it has returned.
UnsettledOrReturned(a) == att[a].pc \in {"download", "job", "returned"}

\* ------------------------------------------- FetchSymCacheInternal::compute
Unsettled(a) == att[a].pc \in {"download", "job"}

Returns(a, outcome) == [att EXCEPT ![a].pc = "returned", ![a].outcome = outcome]

\* ObjectsActor::fetch failed: compute returns the download error.
DownloadFailed(a) ==
    /\ att[a].pc = "download"
    /\ att' = Returns(a, DownloadError)
    /\ out' = Quiet
    /\ UNCHANGED <<calls, store, inflight, job, seen>>

\* A variant of the end of the download: the conversion is run in place, on
\* the path of the compute future, and no job is handed to the pool.
DownloadDoneInline(a) ==
    \E object \in ObjectFiles :
        LET id == att[a].internal.object_meta.id
            good == object.status = "Positive" /\ object.kind = "good"
            status == IF object.status # "Positive" THEN Status(object.status)
                      ELSE IF good THEN Status("Positive") ELSE Status("Malformed")
        IN  /\ att[a].pc = "download"
            /\ att' = Returns(a, status)
            /\ job' = [job EXCEPT ![a] =
                         [NoJob EXCEPT !.pc = "delivered", !.object = object, !.id = id,
                                       !.file = IF good THEN TranscodeChunks(id) ELSE <<>>,
                                       !.synced = good, !.result = status]]
            /\ out' = Quiet
            /\ UNCHANGED <<calls, store, inflight, seen>>

\* ObjectsActor::fetch delivered the object: the job is handed to the pool.
DownloadDone(a) ==
    \E object \in ObjectFiles :
        /\ att[a].pc = "download"
        /\ att' = [att EXCEPT ![a].pc = "job"]
        /\ job' = [job EXCEPT ![a] =
                     [NoJob EXCEPT !.pc = "queued", !.object = object,
                                   !.id = att[a].internal.object_meta.id]]
        /\ out' = Quiet
        /\ UNCHANGED <<calls, store, inflight, seen>>

\* The ceiling fires while the download or the job is pending: compute
\* returns the timeout error and the job handle is dropped.  A queued job is
\* dropped with it, a result the job had ready is discarded; a job that is
\* running on a worker runs on.
Timeout(a) ==
    /\ Unsettled(a)
    /\ att[a].ceiling > 0
    /\ att' = Returns(a, ComputeCeiling.error)
    /\ job' = [job EXCEPT ![a] = CASE job[a].pc = "finished" -> Over("discarded")
                                    [] job[a].pc = "queued" -> Over("dropped")
                                    [] OTHER -> job[a]]
    /\ out' = Quiet
    /\ UNCHANGED <<calls, store, inflight, seen>>

\* The pool gives the job up (it is shutting down, or the job's thread
\* unwound) before the result reached compute: the handle resolves to Canceled.
Cancel(a) ==
    /\ att[a].pc = "job"
    /\ job[a].pc \in {"queued", "create", "write", "flush", "sync", "finished"}
    /\ att' = Returns(a, CanceledError)
    /\ job' = [job EXCEPT ![a] = Over("canceled")]
    /\ out' = Quiet
    /\ UNCHANGED <<calls, store, inflight, seen>>

\* The job's result reaches compute, which returns it.
JobDeliver(a) ==
    /\ att[a].pc = "job"
    /\ job[a].pc = "finished"
    /\ att' = Returns(a, job[a].result)
    /\ job' = [job EXCEPT ![a].pc = "delivered"]
    /\ out' = Quiet
    /\ UNCHANGED <<calls, store, inflight, seen>>

\* --------------------------------------------------------- the worker job
\* A job step of slot a: job' is given, the rest of the engine is untouched.
\* When the job ends after its attempt has settled, the slot is free again.
JobStep(a) ==
    /\ att' = IF att[a].pc = "settled" /\ JobOver(job'[a])
              THEN [att EXCEPT ![a] = UnusedAttempt] ELSE att
    /\ out' = Quiet
    /\ UNCHANGED <<calls, store, inflight, seen>>

\* The job ends with a result; nobody receives it if compute has returned.
Finish(a, j, result, fail) ==
    [job EXCEPT ![a] = IF att[a].pc = "job"
                       THEN [j EXCEPT !.pc = "finished", !.result = result, !.fail = fail]
                       ELSE IF att[a].pc = "settled" THEN NoJob ELSE Over("discarded")]

\* A variant of the job's start: the status of the object is not looked at.
JobStartAnyStatus(a) ==
    /\ job[a].pc = "queued"
    /\ job' = IF job[a].object.kind = "unparseable"
              THEN Finish(a, job[a], ComputeStatus(Err(ParseFailure)), "parse")
              ELSE [job EXCEPT ![a].pc = "create"]
    /\ JobStep(a)

\* compute, lines 132-134, and write_symcache, line 263.
JobStart(a) ==
    /\ job[a].pc = "queued"
    /\ job' = IF job[a].object.status # "Positive"
              THEN Finish(a, job[a], Status(job[a].object.status), "none")
              ELSE IF job[a].object.kind = "unparseable"
              THEN Finish(a, job[a], ComputeStatus(Err(ParseFailure)), "parse")
              ELSE [job EXCEPT ![a].pc = "create"]
    /\ JobStep(a)

\* write_symcache, lines 265-266: File::create.
JobCreate(a) ==
    /\ job[a].pc = "create"
    /\ job' = [job EXCEPT ![a].pc = "write", ![a].file = <<>>, ![a].buf = <<>>]
    /\ JobStep(a)

\* write_symcache, lines 270-277: the transcoder writes the next chunk, or
\* rejects the object's structure.
Written(j) == Len(j.file) + Len(j.buf)

JobWrite(a) ==
    /\ job[a].pc = "write"
    /\ job' = IF job[a].object.kind = "badstruct" /\ Written(job[a]) = 1
              THEN Finish(a, job[a], ComputeStatus(WriteObjectError("BadDebugFile")), "structural")
              ELSE [job EXCEPT ![a] =
                      [BufWrite(job[a], TranscodeChunks(job[a].id)[Written(job[a]) + 1])
                         EXCEPT !.pc = IF Written(job[a]) + 1 = Len(TranscodeChunks(job[a].id))
                                       THEN "flush" ELSE "write"]]
    /\ JobStep(a)

\* write_symcache, line 279: BufWriter::into_inner.
JobFlush(a) ==
    /\ job[a].pc = "flush"
    /\ job' = [job EXCEPT ![a] = [IntoInner(job[a]) EXCEPT !.pc = "sync"]]
    /\ JobStep(a)

\* A variant of the last step: Ok(()) is returned without File::sync_all.
JobSyncSkipped(a) ==
    /\ job[a].pc = "sync"
    /\ job' = Finish(a, job[a], ComputeStatus([kind |-> "ok"]), "none")
    /\ JobStep(a)

\* write_symcache, lines 280-282: File::sync_all, then Ok(()).
JobSync(a) ==
    /\ job[a].pc = "sync"
    /\ job' = Finish(a, [job[a] EXCEPT !.synced = TRUE], ComputeStatus([kind |-> "ok"]), "none")
    /\ JobStep(a)

\* An I/O step fails: File::create, a write of the transcoder (WriteFailed),
\* into_inner or sync_all.
JobIoFail(a) ==
    /\ job[a].pc \in {"create", "write", "flush", "sync"}
    /\ job' = Finish(a, job[a],
                     ComputeStatus(IF job[a].pc = "write"
                                   THEN WriteObjectError("WriteFailed")
                                   ELSE Err(WriteFailure)),
                     job[a].pc)
    /\ JobStep(a)

\* The conversion never completes.
JobHang(a) ==
    /\ job[a].pc = "write"
    /\ job' = [job EXCEPT ![a] = Over("hung")]
    /\ JobStep(a)

\* ------------------------------------------------- engine: settle an attempt
\* compute returned a status: the bytes are committed under the key (the
\* target file becomes the entry; a Negative or Malformed entry has no bytes).
Commit(a) ==
    /\ att[a].pc = "returned"
    /\ att[a].outcome.kind = "status"
    /\ store' = [store EXCEPT ![att[a].key] =
                    Entry(att[a].outcome.status,
                          IF att[a].outcome.status = "Positive" THEN job[a].file ELSE <<>>)]
    /\ att' = [att EXCEPT ![a].pc = "committed"]
    /\ job' = [job EXCEPT ![a].file = <<>>]
    /\ out' = Quiet
    /\ UNCHANGED <<calls, inflight, seen>>

\* The waiters of an attempt get its result and their slots are free again.
Waiter(c, a) == calls[c].pc = "waiting" /\ calls[c].via = a

Release(a) == [c \in Calls |-> IF Waiter(c, a) THEN IdleCall ELSE calls[c]]

Deliver(a, res) ==
    [c \in Calls |-> IF Waiter(c, a) THEN Out("some", calls[c].okey, res, a) ELSE NoOut]

\* A variant of the settlement: the in-flight entry is left in the map.
SettleKeepsEntry(a) ==
    /\ calls' = Release(a)
    /\ inflight' = inflight
    /\ att' = [att EXCEPT ![a] = IF JobOver(job[a]) THEN UnusedAttempt
                                 ELSE [UnusedAttempt EXCEPT !.pc = "settled"]]
    /\ job' = [job EXCEPT ![a] = IF JobOver(job[a]) THEN NoJob ELSE job[a]]

\* The in-flight entry is removed; the slot is free once its job is over.
Settle(a) ==
    /\ calls' = Release(a)
    /\ inflight' = [inflight EXCEPT ![att[a].key] = 0]
    /\ att' = [att EXCEPT ![a] = IF JobOver(job[a]) THEN UnusedAttempt
                                 ELSE [UnusedAttempt EXCEPT !.pc = "settled"]]
    /\ job' = [job EXCEPT ![a] = IF JobOver(job[a]) THEN NoJob ELSE job[a]]

\* The item is loaded from the committed entry and published to the waiters.
Publish(a) ==
    /\ att[a].pc = "committed"
    /\ LET item == load(att[a].internal, att[a].key[2],
                        store[att[a].key].status, store[att[a].key].data)
       IN  /\ out' = Deliver(a, OkItem(item))
           /\ seen' = Remember(item, store[att[a].key].status, att[a].okey, a)
    /\ Settle(a)
    /\ UNCHANGED store

\* compute returned an error: it goes to the waiters and nothing is stored.
PublishError(a) ==
    /\ att[a].pc = "returned"
    /\ att[a].outcome.kind = "err"
    /\ out' = Deliver(a, att[a].outcome)
    /\ Settle(a)
    /\ UNCHANGED <<store, seen>>

\* ================================================================== spec
Next ==
    \/ \E c \in Calls : FetchFindError(c) \/ FetchNotFound(c) \/ FetchFound(c)
    \/ \E a \in AttemptIds :
          \/ DownloadFailed(a) \/ DownloadDone(a)
          \/ Timeout(a) \/ Cancel(a) \/ JobDeliver(a)
          \/ JobStart(a) \/ JobCreate(a) \/ JobWrite(a)
          \/ JobFlush(a) \/ JobSync(a) \/ JobIoFail(a) \/ JobHang(a)
          \/ Commit(a) \/ Publish(a) \/ PublishError(a)

Spec == Init /\ [][Next]_vars

\* The timer of the ceiling fires, and the engine handles what compute returned.
Fairness ==
    \A a \in AttemptIds :
        /\ WF_vars(Timeout(a))
        /\ WF_vars(Commit(a))
        /\ WF_vars(Publish(a))
        /\ WF_vars(PublishError(a))

LiveSpec == Spec /\ Fairness

\* ================================================================ claims
InFlight(a) == att[a].pc \in {"download", "job", "returned", "committed"}
IsItem(o) == o.res.kind = "item"
IoSteps == {"create", "write", "flush", "sync"}
TimeoutError == Err("Symcache building took too long")
CancellationError == Err("Computation was canceled internally")

\* A fetch of slot c reaches the engine in this step for the object k.
FetchesObject(c, k) ==
    /\ calls[c].pc = "idle"
    /\ \/ calls'[c].pc = "waiting" /\ calls'[c].okey = k
       \/ out'[c].found = "some" /\ out'[c].okey = k

\* The fetch of slot c for the object k is answered in this step with the
\* status and bytes e, and nothing is computed for it.
AnsweredFromCache(c, k, e) ==
    /\ calls'[c].pc = "idle"
    /\ out'[c].found = "some" /\ out'[c].okey = k /\ out'[c].via = 0
    /\ IsItem(out'[c])
    /\ out'[c].res.item.status = e.status
    /\ out'[c].res.item.data = e.data
    /\ UNCHANGED <<att, job, store, inflight>>

InfraFailure(a) ==
    \/ att[a].outcome \in {DownloadError, CancellationError, TimeoutError}
    \/ job[a].fail \in IoSteps

C2_InfraFailureNeverStored ==
    \A a \in AttemptIds :
        att[a].pc \in {"returned", "committed"} /\ InfraFailure(a)
            => att[a].outcome.kind = "err" /\ att[a].pc # "committed"

\* C3: the job turns a write failure (File::create, WriteFailed, into_inner,
\* sync_all) into a hard error, and only a parse failure or a structural
\* transcoder failure into Malformed.
C3_WriteFailurePropagates ==
    \A a \in AttemptIds :
        job[a].pc \in {"finished", "delivered"} =>
            /\ job[a].fail \in IoSteps => job[a].result.kind = "err"
            /\ job[a].fail \in {"parse", "structural"} => job[a].result = Status("Malformed")

\* C4: once a fetch for the object K has settled with status Malformed, every
\* fetch that resolves K is answered at once with a Malformed item, and no
\* computation is started or joined for it.
C4_MalformedIsCached ==
    [][\A c \in Calls, k \in CacheKeys :
          seen[k].entry = "Malformed" /\ FetchesObject(c, k)
              => AnsweredFromCache(c, k, Entry("Malformed", seen[k].data))]_vars

\* A fetch was answered with a Malformed item without a computation.
C4_Witness ==
    \E c \in Calls :
        /\ out[c].found = "some" /\ out[c].via = 0 /\ IsItem(out[c])
        /\ out[c].res.item.status = "Malformed"
        /\ seen[out[c].okey].computed

\* C5: a fetch whose resolution reports "not found" returns a Negative item
\* with an empty payload whose parse accessor gives Ok(None); no key is
\* computed, and the engine, the attempts, the jobs and the store are untouched.
C5_NotFoundBypassesEngine ==
    [][\A c \in Calls :
          out'[c].found = "none" =>
              /\ IsItem(out'[c])
              /\ out'[c].res.item.status = "Negative"
              /\ out'[c].res.item.data = <<>>
              /\ SymCacheFileParse(out'[c].res.item) = [ok |-> TRUE, some |-> FALSE]
              /\ out'[c].okey = NoKey /\ out'[c].via = 0
              /\ UNCHANGED <<calls, store, inflight, att, job, seen>>]_vars

\* A fetch returned the not-found item.
C5_Witness == \E c \in Calls : out[c].found = "none" /\ IsItem(out[c])

\* C6: an attempt whose conversion hangs is never committed and returns only
\* the timeout error of the 1200 s ceiling; and every caller waiting on an
\* attempt is eventually answered with an item or an error.
C6_TimeoutSettles ==
    /\ [](\A a \in AttemptIds :
            job[a].pc = "hung" =>
                /\ att[a].pc \in {"job", "returned", "settled"}
                /\ att[a].pc = "job" => att[a].ceiling = 1200
                /\ att[a].pc = "returned" => att[a].outcome = TimeoutError)
    /\ \A c \in Calls :
          (calls[c].pc = "waiting") ~> (calls[c].pc = "idle" /\ out[c].res.kind \in {"item", "err"})

\* A caller was answered with the timeout error by an attempt whose job hangs.
C6_Witness ==
    \E c \in Calls :
        /\ out[c].via # 0 /\ out[c].res = TimeoutError
        /\ job[out[c].via].pc = "hung"

\* C7: no partially written artifact is addressable or handed out: a Positive
\* entry and a Positive item hold a complete artifact, an item published by a
\* computation is the entry committed under its key, and an attempt commits
\* only after its job has ended and delivered its result.
Partial(data) ==
    \E n \in 0..(Len(TranscodeChunks("X")) - 1) : data = SubSeq(TranscodeChunks("X"), 1, n)

C7_WriteThenPublish ==
    /\ \A k \in CacheKeys : store[k].status = "Positive" => ~Partial(store[k].data)
    /\ \A c \in Calls :
          IsItem(out[c]) =>
              /\ out[c].res.item.status = "Positive" => ~Partial(out[c].res.item.data)
              /\ out[c].via # 0 =>
                    store[out[c].okey] = Entry(out[c].res.item.status, out[c].res.item.data)
    /\ \A a \in AttemptIds :
          att[a].pc = "committed" => job[a].pc = "delivered"

\* A computation published a Positive item.
C7_Witness ==
    \E c \in Calls :
        out[c].via # 0 /\ IsItem(out[c]) /\ out[c].res.item.status = "Positive"

\* C8: once a computation has produced a Positive item for the object K, every
\* fetch that resolves K is answered at once with the same status and bytes,
\* and no computation is started or joined for it.
C8_CachedFetchIdempotent ==
    [][\A c \in Calls, k \in CacheKeys :
          seen[k].status = "Positive" /\ seen[k].computed /\ FetchesObject(c, k)
              => AnsweredFromCache(c, k, Entry(seen[k].status, seen[k].data))]_vars

\* A fetch was answered from the cache after a computation had produced the item.
C8_Witness ==
    \E c \in Calls :
        /\ out[c].found = "some" /\ out[c].via = 0 /\ IsItem(out[c])
        /\ out[c].res.item.status = "Positive"
        /\ seen[out[c].okey].computed

\* C9: should_load accepts exactly the bytes that parse as a symcache of the
\* latest revision; a fetch that finds a Positive entry and no computation in
\* flight is answered from it when its bytes are accepted, and starts a
\* computation when they are outdated or do not parse.
LatestBytes(data) == SymCacheParse(data).ok /\ SymCacheParse(data).version = "latest"

C9_StaleBytesRecompute ==
    [][\A c \in Calls, k \in CacheKeys :
          store[k].status = "Positive" /\ inflight[k] = 0 /\ FetchesObject(c, k) =>
              /\ should_load(store[k].data) = LatestBytes(store[k].data)
              /\ LatestBytes(store[k].data) => AnsweredFromCache(c, k, store[k])
              /\ ~LatestBytes(store[k].data) =>
                    /\ calls'[c].pc = "waiting"
                    /\ att[calls'[c].via].pc = "unused"
                    /\ att'[calls'[c].via].pc = "download"]_vars

\* A computation is under way for a key whose persisted bytes parse as a
\* symcache of an outdated revision.
C9_Witness ==
    \E a \in AttemptIds :
        /\ att[a].pc = "download"
        /\ store[att[a].key].status = "Positive"
        /\ SymCacheParse(store[att[a].key].data).ok
        /\ SymCacheParse(store[att[a].key].data).version = "old"

\* C10: when the pool cancels the job of an attempt, compute returns the
\* cancellation error whatever the job had produced, the store is left as it
\* is, the attempt is never committed, and its waiters get that error.
C10_CancelDiscards ==
    [][\A a \in AttemptIds :
          /\ (job'[a].pc = "canceled" /\ job[a].pc # "canceled") =>
                 /\ att'[a].pc = "returned"
                 /\ att'[a].outcome = CancellationError
                 /\ store' = store
          /\ job[a].pc = "canceled" =>
                 /\ att[a].pc = "returned"
                 /\ att[a].outcome = CancellationError
                 /\ store'[att[a].key] = store[att[a].key]
                 /\ att'[a].pc \in {"returned", "unused"}
                 /\ \A c \in Calls :
                       (calls[c].pc = "waiting" /\ calls[c].via = a /\ calls'[c].pc = "idle")
                           => out'[c].res = CancellationError]_vars

\* The waiter of a cancelled job was answered with the cancellation error.
C10_Witness ==
    \E c \in Calls : out[c].via # 0 /\ out[c].res = CancellationError

\* An object whose status is Positive and that cannot be converted: it does
\* not parse, or the transcoder rejects its structure.
CorruptObject(o) == o.status = "Positive" /\ o.kind \in {"unparseable", "badstruct"}

\* C11: a fetch with sources [A, B] that resolves to a corrupt object ends
\* with a Malformed item whose parse accessor gives an error.  The fetch
\* resolves once (a caller attaches to an attempt in the step in which it
\* leaves idle), the attempt hands one job to the pool (a job is queued only
\* as the download ends) and the job starts the conversion once (file
\* creation follows the start of the queued job only); whenever the job of a
\* corrupt object ends, it ends with Malformed and without a complete file.
C11_CorruptObjectMalformed ==
    [][\A a \in AttemptIds :
          /\ (job'[a].pc = "queued" /\ job[a].pc # "queued") =>
                 /\ job[a].pc = "none"
                 /\ att[a].pc = "download" /\ att'[a].pc = "job"
                 /\ att[a].internal.request.sources = <<"A", "B">>
          /\ (job'[a].pc \in {"create", "finished"} /\ job'[a].pc # job[a].pc) =>
                 job[a].pc \in IF job'[a].pc = "create" THEN {"queued"}
                               ELSE {"queued", "create", "write", "flush", "sync"}
          /\ (CorruptObject(job'[a].object) /\ job'[a].pc = "finished") =>
                 job'[a].result = Status("Malformed")
          /\ (att[a].pc = "committed" /\ CorruptObject(job[a].object)
                /\ att'[a].pc # "committed") =>
                 /\ store[att[a].key] = Entry("Malformed", <<>>)
                 /\ \A c \in Calls :
                       Waiter(c, a) =>
                           /\ calls'[c].pc = "idle"
                           /\ IsItem(out'[c])
                           /\ out'[c].res.item.status = "Malformed"
                           /\ ~SymCacheFileParse(out'[c].res.item).ok
          /\ \A c \in Calls :
                (calls'[c].pc = "waiting" /\ calls'[c].via = a /\ calls[c] # calls'[c]) =>
                    calls[c].pc = "idle"]_vars

\* The attempt of a fetch whose object is corrupt has committed Malformed and
\* a caller waits for the item.
C11_Witness ==
    \E a \in AttemptIds, c \in Calls :
        /\ att[a].pc = "committed"
        /\ CorruptObject(job[a].object)
        /\ job[a].fail \in {"parse", "structural"}
        /\ store[att[a].key].status = "Malformed"
        /\ Waiter(c, a)
        /\ att[a].internal.request.sources = <<"A", "B">>

\* C12: the in-flight map holds an entry for a key exactly while a computation
\* for that key is unsettled: every entry names an unsettled attempt for its
\* key, every unsettled attempt is entered under its key, the entry is gone in
\* the state in which the waiters hold the result (an item of any status, or
\* an error), and with no unsettled attempt the map is empty.
C12_InflightWhileUnsettled ==
    /\ \A k \in CacheKeys :
          inflight[k] # 0 => InFlight(inflight[k]) /\ att[inflight[k]].key = k
    /\ \A a \in AttemptIds : InFlight(a) => inflight[att[a].key] = a
    /\ \A c \in Calls : out[c].via # 0 => inflight[out[c].okey] = 0
    /\ (\A a \in AttemptIds : ~InFlight(a)) => \A k \in CacheKeys : inflight[k] = 0

\* An attempt has just settled with an error and the map is empty.
C12_Witness ==
    /\ \E c \in Calls : out[c].via # 0 /\ out[c].res.kind = "err"
    /\ \A k \in CacheKeys : inflight[k] = 0

\* ===================================================== items: load and parse
\* load and SymCacheFile::parse as functions of their inputs.  The engine is
\* about to load an entry for a waiting caller: the request, the scope of the
\* key and the entry (any status with any bytes a store can hold) are drawn
\* from bounded sets; the engine then loads the item (Publish) and the caller
\* calls the parse accessor of the item it got.
GlobalScope == "global"
ItemKeys == CacheKeys \cup {CacheKey(i, GlobalScope) : i \in Identifiers}
CacheStatuses == {"Negative", "Malformed", "Positive"}
PayloadSamples ==
    { <<>>, GarbageBytes, <<Header("latest", ArchOf("X"))>>,
      SymCacheBytes("old", "X"), SymCacheBytes("latest", "X") }

\* What the caller holds after item.parse(): the item and the accessor's result.
Parsed(item) == [kind |-> "parsed", item |-> item, result |-> SymCacheFileParse(item)]

\* The caller of slot c calls the parse accessor of the item fetch returned.
ParseItem(c) ==
    /\ IsItem(out[c])
    /\ out' = [out EXCEPT ![c].res = Parsed(out[c].res.item)]
    /\ UNCHANGED <<calls, store, inflight, att, job, seen>>

ItemInit ==
    \E request \in Requests, scope \in Scopes \cup {GlobalScope},
       status \in CacheStatuses, data \in PayloadSamples :
        LET internal == FetchSymCacheInternal(request, ObjectFileMeta(request))
            key == CacheKey(get_cache_key(internal)[1], scope)
        IN  /\ calls = [c \in Calls |-> IF c = 1 THEN Call("waiting", key, 1) ELSE IdleCall]
            /\ out = Quiet
            /\ store = [k \in ItemKeys |-> IF k = key THEN Entry(status, data) ELSE Absent]
            /\ inflight = [k \in ItemKeys |-> IF k = key THEN 1 ELSE 0]
            /\ att = [a \in AttemptIds |->
                        IF a = 1
                        THEN [UnusedAttempt EXCEPT !.pc = "committed", !.key = key,
                                                   !.okey = key, !.internal = internal,
                                                   !.outcome = Status(status)]
                        ELSE UnusedAttempt]
            /\ job = [a \in AttemptIds |-> NoJob]
            /\ seen = [k \in ItemKeys |-> NotSeen]

ItemNext ==
    \/ \E a \in AttemptIds : Publish(a)
    \/ \E c \in Calls : ParseItem(c)

ItemSpec == ItemInit /\ [][ItemNext]_vars

\* C13: the parse accessor of an item goes by its status: Negative gives
\* Ok(None) and Malformed gives an error, both whatever the payload holds;
\* Positive gives what parsing the payload gives.
C13_ParseByStatus ==
    \A c \in Calls :
        out[c].res.kind = "parsed" =>
            LET item == out[c].res.item
                result == out[c].res.result
            IN  /\ item.status = "Negative" => result.ok /\ ~result.some
                /\ item.status = "Malformed" => ~result.ok
                /\ item.status = "Positive" =>
                       /\ result.ok = SymCacheParse(item.data).ok
                       /\ result.some = SymCacheParse(item.data).ok

\* A caller parsed a Malformed item whose payload is a well-formed symcache
\* and got an error.
C13_Witness ==
    \E c \in Calls :
        /\ out[c].res.kind = "parsed"
        /\ out[c].res.item.status = "Malformed"
        /\ SymCacheParse(out[c].res.item.data).ok
        /\ ~out[c].res.result.ok

\* The job of attempt a ended with a logical outcome: the object was not
\* Positive, it did not parse, or the transcoder rejected its structure.
LogicalOutcome(j) ==
    /\ j.pc \in {"finished", "delivered"}
    /\ \/ j.object.status # "Positive"
       \/ j.fail \in {"parse", "structural"}

LogicalStatus(j) ==
    IF j.object.status # "Positive" THEN j.object.status ELSE "Malformed"

InfrastructureErrors == {DownloadError, CancellationError, TimeoutError}

\* C14: a logical outcome of compute (object Negative, object Malformed,
\* object parse failure, structural transcoding failure) is a status, never
\* an error; the attempt that returns it is committed and its waiters get an
\* item with that status; and every error an attempt returns or a caller
\* gets is one of the infrastructure errors.
C14_LogicalOutcomeIsStatus ==
    /\ [](\A a \in AttemptIds :
            /\ LogicalOutcome(job[a]) => job[a].result = Status(LogicalStatus(job[a]))
            /\ (LogicalOutcome(job[a]) /\ job[a].pc = "delivered") =>
                   att[a].outcome = Status(LogicalStatus(job[a]))
            /\ att[a].outcome.kind = "err" => att[a].outcome \in InfrastructureErrors)
    /\ [](\A c \in Calls :
            out[c].res.kind = "err" => out[c].res \in InfrastructureErrors)
    /\ [][\A a \in AttemptIds :
            (att[a].pc = "committed" /\ att'[a].pc # "committed") =>
                \A c \in Calls :
                    Waiter(c, a) =>
                        /\ IsItem(out'[c])
                        /\ out'[c].res.item.status = att[a].outcome.status]_vars

\* compute returned Negative for an object that is Negative, and the status is
\* committed for the caller that waits.
C14_Witness ==
    \E a \in AttemptIds, c \in Calls :
        /\ att[a].pc = "committed"
        /\ job[a].object.status = "Negative"
        /\ att[a].outcome = Status("Negative")
        /\ store[att[a].key].status = "Negative"
        /\ Waiter(c, a)

\* C15: for an object whose status is not Positive the job returns exactly
\* that status and does nothing else: it ends in the step in which it starts,
\* with no parse failure recorded, and object parsing, file creation,
\* transcoding, flush and sync happen for a Positive object only, so the
\* target file is never created or written.
C15_NonPositiveShortCircuit ==
    /\ [](\A a \in AttemptIds :
            /\ (Running(job[a]) \/ job[a].fail # "none" \/ job[a].file # <<>>
                  \/ job[a].buf # <<>> \/ job[a].synced)
                   => job[a].object.status = "Positive"
            /\ (job[a].pc \in {"finished", "delivered"} /\ job[a].object.status # "Positive")
                   => job[a].result = Status(job[a].object.status))
    /\ [][\A a \in AttemptIds :
            (job[a].pc = "queued" /\ job[a].object.status # "Positive"
               /\ job'[a].pc \notin {"queued", "dropped", "canceled"})
                => \/ job'[a] = [job[a] EXCEPT !.pc = "finished",
                                               !.result = Status(job[a].object.status)]
                   \/ /\ att[a].pc # "job"
                      /\ job'[a] \in {NoJob, Over("discarded")}]_vars

\* The job of a Malformed object has ended with Malformed and no file.
C15_Witness ==
    \E a \in AttemptIds :
        /\ job[a].pc = "finished"
        /\ job[a].object.status = "Malformed"
        /\ job[a].result = Status("Malformed")
        /\ job[a].file = <<>> /\ ~job[a].synced

\* The target file of job j holds the whole artifact and nothing is buffered.
WholeArtifact(j) == j.file = TranscodeChunks(j.id) /\ j.buf = <<>>

\* C16: the job returns Positive only when the whole artifact is in the
\* target file, nothing is left in the buffer and the file is synced, with no
\* step failed; compute returns Positive only with such a job; and the steps
\* come in order: the flush follows the last write, the sync follows the
\* flush and finds the whole artifact in the file, Positive follows the sync.
C16_PositiveAfterDurableWrite ==
    /\ [](\A a \in AttemptIds :
            /\ (job[a].pc \in {"finished", "delivered"} /\ job[a].result = Status("Positive"))
                   => /\ job[a].fail = "none"
                      /\ job[a].synced
                      /\ job[a].buf = <<>>
                      /\ att[a].pc \in {"job", "returned"} => WholeArtifact(job[a])
            /\ (job[a].pc \in {"finished", "delivered"} /\ job[a].fail # "none")
                   => job[a].result # Status("Positive")
            /\ (att[a].pc = "returned" /\ att[a].outcome = Status("Positive"))
                   => job[a].pc = "delivered" /\ job[a].synced /\ WholeArtifact(job[a])
            /\ job[a].pc = "sync" => WholeArtifact(job[a]) /\ ~job[a].synced
            /\ job[a].pc = "flush" => Written(job[a]) = Len(TranscodeChunks(job[a].id)))
    /\ [][\A a \in AttemptIds :
            /\ (job'[a].pc = "flush" /\ job[a].pc # "flush") => job[a].pc = "write"
            /\ (job'[a].pc = "sync" /\ job[a].pc # "sync") => job[a].pc = "flush"
            /\ (job'[a].result = Status("Positive") /\ job[a].result # Status("Positive"))
                   => job[a].pc = "sync" /\ job'[a].pc = "finished"]_vars

\* compute returned Positive: the job was delivered with a synced, whole file.
C16_Witness ==
    \E a \in AttemptIds :
        /\ att[a].pc = "returned" /\ att[a].outcome = Status("Positive")
        /\ job[a].synced /\ WholeArtifact(job[a])

DownloadFailure == Err("Failed to download object")

\* C17: a fetch whose resolution (find) fails returns that failure as an
\* error, with no item, no key, no attempt and no job, and the engine and the
\* store are untouched; and compute leaves the download either by handing the
\* job to the pool or by returning an error (the failed download, or the
\* timeout) with no job submitted.
C17_ResolutionFailureIsError ==
    /\ [][\A c \in Calls :
            out'[c].found = "error" =>
                /\ out'[c].res = DownloadFailure
                /\ out'[c].okey = NoKey /\ out'[c].via = 0
                /\ UNCHANGED <<calls, store, inflight, att, job, seen>>]_vars
    /\ [][\A a \in AttemptIds :
            (att[a].pc = "download" /\ att'[a].pc # "download") =>
                \/ att'[a].pc = "job" /\ job'[a].pc = "queued"
                \/ /\ att'[a].pc = "returned"
                   /\ att'[a].outcome \in {DownloadFailure, TimeoutError}
                   /\ job[a] = NoJob /\ job'[a] = NoJob]_vars
    /\ [](\A a \in AttemptIds :
            att[a].outcome = DownloadFailure =>
                att[a].pc = "returned" /\ job[a] = NoJob)

\* The download of an attempt has failed, and a fetch has just ended with the
\* error of a failed resolution.
C17_Witness ==
    /\ \E c \in Calls : out[c].found = "error" /\ out[c].res.kind = "err"
    /\ \E a \in AttemptIds :
          att[a].pc = "returned" /\ att[a].outcome = DownloadFailure /\ job[a] = NoJob

\* Blocking work of the conversion is done for attempt a in this step: the
\* job enters one of its steps or ends, the target file gets content, the
\* file is synced, or a failure of a step is recorded.
BlockingWork(a) ==
    \/ job'[a].pc # job[a].pc /\ job'[a].pc \in {"create", "write", "flush", "sync", "finished"}
    \/ job'[a].file # job[a].file /\ job'[a].file # <<>>
    \/ job'[a].buf # job[a].buf /\ job'[a].buf # <<>>
    \/ job'[a].synced /\ ~job[a].synced
    \/ job'[a].fail # job[a].fail /\ job'[a].fail # "none"

\* C18: the blocking part of compute (object parsing, file creation,
\* transcoding, flush, sync) is done only by a job that is on the pool, in
\* steps of that job: such a step moves neither a caller nor the compute
\* future nor the engine; a step of fetch leaves every job as it is; and a
\* job is on the pool only for an attempt whose download has ended with an
\* object, and is handed over in the step in which the download ends.
C18_BlockingWorkOnPool ==
    /\ [][\A a \in AttemptIds :
            BlockingWork(a) =>
                /\ job[a].pc \in {"queued", "create", "write", "flush", "sync"}
                /\ att[a].pc \in {"job", "returned", "settled"}
                /\ att'[a].pc = att[a].pc
                /\ UNCHANGED <<calls, store, inflight, seen>>
                /\ out' = Quiet]_vars
    /\ [][(\E c \in Calls : calls[c].pc = "idle" /\ (calls'[c] # calls[c] \/ out'[c] # NoOut))
              => job' = job]_vars
    /\ [][\A a \in AttemptIds :
            (job'[a].pc = "queued" /\ job[a].pc # "queued") =>
                /\ att[a].pc = "download" /\ att'[a].pc = "job"
                /\ job'[a].object \in ObjectFiles]_vars
    /\ [](\A a \in AttemptIds :
            att[a].pc \in {"unused", "download"} => job[a] = NoJob)

\* A job on the pool has written the artifact and is about to flush, while
\* its attempt is pending and a caller waits.
C18_Witness ==
    \E a \in AttemptIds, c \in Calls :
        /\ job[a].pc = "flush" /\ Written(job[a]) = Len(TranscodeChunks(job[a].id))
        /\ att[a].pc = "job"
        /\ Waiter(c, a)

ComputeOutcomes ==
    {Status(s) : s \in CacheStatuses} \cup {DownloadFailure, CancellationError, TimeoutError}

\* C19: an attempt settles once, with one of: a status, the download error,
\* the cancellation error, the timeout error.  It has no outcome while it is
\* pending, it returns from pending only, and what it returned stays until the
\* engine has handled it.  One ceiling of 1200 s is armed from the start of
\* the download to the return and can fire in the download and in the
\* conversion alike.  A job that runs on after the timeout changes neither
\* the outcome nor the store nor what any caller gets.
C19_SettlesOnce ==
    /\ [](\A a \in AttemptIds :
            /\ att[a].pc \in {"download", "job"} =>
                   /\ att[a].outcome = NoResult
                   /\ att[a].ceiling = 1200
                   /\ ENABLED Timeout(a)
            /\ att[a].pc \in {"returned", "committed"} => att[a].outcome \in ComputeOutcomes
            /\ att[a].pc = "committed" => att[a].outcome.kind = "status")
    /\ [][\A a \in AttemptIds :
            /\ (att'[a].pc = "returned" /\ att[a].pc # "returned") =>
                   att[a].pc \in {"download", "job"}
            /\ att[a].pc \in {"returned", "committed"} =>
                   \/ att'[a].outcome = att[a].outcome
                   \/ att'[a].pc \in {"unused", "settled"}
            /\ (att[a].pc \in {"returned", "settled"} /\ Running(job[a]) /\ job'[a] # job[a]
                  /\ att'[a].pc = att[a].pc) =>
                   /\ att'[a] = att[a]
                   /\ store' = store
                   /\ out' = Quiet]_vars
    /\ [][\A c \in Calls, a \in AttemptIds :
            (Waiter(c, a) /\ calls'[c].pc = "idle") =>
                /\ att[a].pc \in {"returned", "committed"}
                /\ att[a].outcome.kind = "err" => out'[c].res = att[a].outcome
                /\ att[a].outcome.kind = "status" =>
                       IsItem(out'[c]) /\ out'[c].res.item.status = att[a].outcome.status]_vars

\* The timeout has fired during the conversion and the job runs on.
C19_Witness ==
    \E a \in AttemptIds :
        /\ att[a].pc = "returned" /\ att[a].outcome = TimeoutError
        /\ job[a].pc = "sync"

\* C20: load builds the item from its inputs and changes none of them: when
\* the engine loads the entry of a committed attempt, the item every waiter
\* gets has the scope of the key, the status and the bytes of the entry, the
\* object type and identifier of the fetch request, the features of the
\* resolved object, and the architecture read from the bytes, or Unknown when
\* the bytes do not parse; the entry is as it was.
C20_LoadKeepsInputs ==
    [][\A a \in AttemptIds :
          (att[a].pc = "committed" /\ att'[a].pc # "committed") =>
              \A c \in Calls :
                  Waiter(c, a) =>
                      LET entry == store[att[a].key]
                          internal == att[a].internal
                      IN  /\ IsItem(out'[c])
                          /\ out'[c].res.item.scope = att[a].key[2]
                          /\ out'[c].res.item.status = entry.status
                          /\ out'[c].res.item.data = entry.data
                          /\ out'[c].res.item.object_type = internal.request.object_type
                          /\ out'[c].res.item.identifier = internal.request.identifier
                          /\ out'[c].res.item.features = internal.object_meta.features
                          /\ out'[c].res.item.arch =
                                 IF SymCacheParse(entry.data).ok
                                 THEN entry.data[1].arch ELSE ArchUnknown
                          /\ store' = store]_vars

\* An item was loaded from a Malformed entry of the global scope whose bytes
\* parse, for a request of another scope whose identifier is not the object's
\* own: it has the architecture of the bytes and the features of the object.
C20_Witness ==
    \E c \in Calls :
        /\ IsItem(out[c]) /\ out[c].via # 0
        /\ out[c].res.item.scope = GlobalScope
        /\ out[c].res.item.identifier = "X2"
        /\ out[c].res.item.status = "Malformed"
        /\ out[c].res.item.data = SymCacheBytes("old", "X")
        /\ out[c].res.item.arch = ArchOf("X")
        /\ out[c].res.item.features = ObjectFeaturesOf("X")

====
